---- MODULE Spec2Model ----
(***************************************************************************)
(* Render boxes of servo/layout/box.rs: the line-splitting pass            *)
(* (split_to_width) and display-list emission (build_display_list).        *)
(***************************************************************************)
EXTENDS Integers, Sequences, FiniteSets, TLC

\* ------------------------------------------------------------------ bounds
\* longest run, counted in indivisible pieces
MaxPieces == 3
\* largest max_width handed to split_to_width
MaxWidth == 4
\* boxes painted into one display list
MaxBoxes == 2
\* advance widths and character lengths an indivisible piece may have
Advances == {1, 2}
PieceLens == {1, 2}

\* ------------------------------------------------------------------ values
None == [tag |-> "None"]
Some(x) == [tag |-> "Some", val |-> x]
IsSome(o) == o.tag = "Some"

\* enum RenderBox
Kinds == {"GenericBox", "ImageBox", "TextBox", "UnscannedTextBox"}

\* A shaped run, as the text metrics provider presents it: its indivisible
\* pieces in source order, each with its character length, its advance width
\* and whether it is entirely trimmable whitespace.
Piece == [len : PieceLens, adv : Advances, ws : BOOLEAN]
Runs == UNION {[1..n -> Piece] : n \in 1..MaxPieces}

VARIABLES
  kind,             \* variant of the box (self)
  run,              \* TextBoxData.run, shared and immutable
  data,             \* TextBoxData.offset, TextBoxData.length
  max_width,        \* argument of split_to_width
  starts_line,      \* argument of split_to_width
  pc,               \* position inside split_to_width
  cursor,           \* offset of the next piece iter_indivisible_pieces_for_range yields
  i,                \* locals of split_to_width
  remaining_width,
  left_offset,
  left_length,
  right_offset,
  right_length,
  should_continue,
  result,           \* SplitBoxResult returned
  prev,             \* the left box of the previous fit, when it is being re-split
  style,            \* self.d().node.style()
  position,         \* RenderBoxData.position
  image,            \* what ImageHolder.get_image() returns
  dirty,            \* arguments of build_display_list
  offset,
  list,             \* the display list (shared by the calls of one paint pass)
  ppc,              \* position inside build_display_list
  abs_box_bounds,   \* local of build_display_list
  list0,            \* the display list as the current call found it
  boxes             \* calls of build_display_list so far in this paint pass

splitVars == <<kind, run, data, max_width, starts_line, pc, cursor, i,
               remaining_width, left_offset, left_length, right_offset,
               right_length, should_continue, result, prev>>

paintVars == <<style, position, image, dirty, offset, list, ppc,
               abs_box_bounds, list0, boxes>>

vars == <<splitVars, paintVars>>

\* ------------------------------------------------- text metrics provider
RECURSIVE PieceOffset(_, _)
\* character offset at which piece k of run r starts
PieceOffset(r, k) == IF k = 1 THEN 0 ELSE PieceOffset(r, k - 1) + r[k - 1].len

RunLength(r) == PieceOffset(r, Len(r)) + r[Len(r)].len

\* index of the piece of r that holds character position p
PieceAt(r, p) ==
  CHOOSE k \in 1..Len(r) : PieceOffset(r, k) <= p /\ p < PieceOffset(r, k) + r[k].len

\* iter_indivisible_pieces_for_range(offset, length): the closure is called
\* with the piece that starts at `at`, while `at` lies inside the range
HasNextPiece(at, range_offset, range_length) == at < range_offset + range_length
NextPiece(r, at) == PieceAt(r, at)

\* metrics_for_range(off, len).advance_width of one piece
AdvanceWidth(r, k) == r[k].adv

\* range_is_trimmable_whitespace(off, len) of one piece
RangeIsTrimmableWhitespace(r, k) == r[k].ws

\* layout::text::adapt_textbox_with_range: a Text box on the same run
AdaptTextboxWithRange(off, len) == [offset |-> off, length |-> len]

\* ------------------------------------------------------- split_to_width
Pending == [tag |-> "Pending"]
CannotSplit == [tag |-> "CannotSplit"]
Failed == [tag |-> "fail"]
SplitDidFit(l, r) == [tag |-> "SplitDidFit", left |-> l, right |-> r]
SplitDidNotFit(l, r) == [tag |-> "SplitDidNotFit", left |-> l, right |-> r]

\* the comparison made strict: a piece that fills the width exactly is refused
FitsStrictly(advance, remaining) == advance < remaining

\* the comparison made against the whole width, not what is left of it
FitsMaxWidth(advance, remaining) == advance <= max_width

\* `advance <= remaining_width`
Fits(advance, remaining) == advance <= remaining

\* the whitespace test left out: any first piece of a line is skipped
SkipsFirstPiece(sl, n, r, k) == sl /\ n = 0

\* `starts_line && i == 0 && data.run.range_is_trimmable_whitespace(off, len)`
SkipsLeadingWhitespace(sl, n, r, k) ==
  sl /\ n = 0 /\ RangeIsTrimmableWhitespace(r, k)

\* `>=` for `>`: an empty left range becomes a box
LeftBoxAlways(loff, llen) ==
  IF llen >= 0 THEN Some(AdaptTextboxWithRange(loff, llen)) ELSE None

\* `let left_box = if left_length > 0 { Some(..) } else { None }`
LeftBox(loff, llen) ==
  IF llen > 0 THEN Some(AdaptTextboxWithRange(loff, llen)) ELSE None

\* `&&` for `||` in the verdict
VerdictBothNeeded(n, left_box, roff, rlen) ==
  IF IsSome(roff) /\ IsSome(rlen)
  THEN LET right_box == AdaptTextboxWithRange(roff.val, rlen.val)
       IN  IF n = 1 /\ ~IsSome(left_box)
           THEN [tag |-> "SplitDidNotFit", left |-> left_box, right |-> Some(right_box)]
           ELSE [tag |-> "SplitDidFit", left |-> left_box, right |-> Some(right_box)]
  ELSE [tag |-> "SplitDidFit", left |-> left_box, right |-> None]

\* `i >= 1` for `i == 1` in the verdict
VerdictAnyExamined(n, left_box, roff, rlen) ==
  IF IsSome(roff) /\ IsSome(rlen)
  THEN LET right_box == AdaptTextboxWithRange(roff.val, rlen.val)
       IN  IF n >= 1 \/ ~IsSome(left_box)
           THEN [tag |-> "SplitDidNotFit", left |-> left_box, right |-> Some(right_box)]
           ELSE [tag |-> "SplitDidFit", left |-> left_box, right |-> Some(right_box)]
  ELSE [tag |-> "SplitDidFit", left |-> left_box, right |-> None]

\* the final match on (right_offset, right_length)
Verdict(n, left_box, roff, rlen) ==
  IF IsSome(roff) /\ IsSome(rlen)
  THEN LET right_box == AdaptTextboxWithRange(roff.val, rlen.val)
       IN  IF n = 1 \/ ~IsSome(left_box)
           THEN SplitDidNotFit(left_box, Some(right_box))
           ELSE SplitDidFit(left_box, Some(right_box))
  ELSE SplitDidFit(left_box, None)

\* the locals as a call of split_to_width finds them
Idle ==
  /\ pc = "call"
  /\ cursor = 0
  /\ i = 0
  /\ remaining_width = 0
  /\ left_offset = 0
  /\ left_length = 0
  /\ right_offset = None
  /\ right_length = None
  /\ should_continue = TRUE
  /\ result = Pending

\* GenericBox / ImageBox: CannotSplit(self)
SplitCannotSplit ==
  /\ pc = "call"
  /\ kind \in {"GenericBox", "ImageBox"}
  /\ result' = CannotSplit
  /\ pc' = "done"
  /\ UNCHANGED <<kind, run, data, max_width, starts_line, cursor, i,
                 remaining_width, left_offset, left_length, right_offset,
                 right_length, should_continue, prev>>
  /\ UNCHANGED paintVars

\* UnscannedTextBox: fail
SplitUnscanned ==
  /\ pc = "call"
  /\ kind = "UnscannedTextBox"
  /\ result' = Failed
  /\ pc' = "failed"
  /\ UNCHANGED <<kind, run, data, max_width, starts_line, cursor, i,
                 remaining_width, left_offset, left_length, right_offset,
                 right_length, should_continue, prev>>
  /\ UNCHANGED paintVars

\* TextBox: the locals are initialised
SplitBegin ==
  /\ pc = "call"
  /\ kind = "TextBox"
  /\ i' = 0
  /\ remaining_width' = max_width
  /\ left_offset' = data.offset
  /\ left_length' = 0
  /\ right_offset' = None
  /\ right_length' = None
  /\ cursor' = data.offset
  /\ should_continue' = TRUE
  /\ pc' = "loop"
  /\ UNCHANGED <<kind, run, data, max_width, starts_line, result, prev>>
  /\ UNCHANGED paintVars

\* one call of the closure given to iter_indivisible_pieces_for_range
ConsiderPiece ==
  /\ pc = "loop"
  /\ should_continue
  /\ HasNextPiece(cursor, data.offset, data.length)
  /\ LET k == NextPiece(run, cursor)
         off == PieceOffset(run, k)
         len == run[k].len
         advance == AdvanceWidth(run, k)
         end == data.offset + data.length
     IN  IF Fits(advance, remaining_width)
         THEN /\ should_continue' = TRUE
              /\ IF SkipsLeadingWhitespace(starts_line, i, run, k)
                 THEN /\ left_offset' = left_offset + len
                      /\ UNCHANGED <<remaining_width, left_length>>
                 ELSE /\ remaining_width' = remaining_width - advance
                      /\ left_length' = left_length + len
                      /\ UNCHANGED left_offset
              /\ UNCHANGED <<right_offset, right_length>>
         ELSE /\ should_continue' = FALSE
              /\ IF RangeIsTrimmableWhitespace(run, k)
                 THEN IF off + len < end
                      THEN /\ right_offset' = Some(off + len)
                           /\ right_length' = Some(end - (off + len))
                      ELSE UNCHANGED <<right_offset, right_length>>
                 ELSE IF off < data.length + data.offset
                      THEN /\ right_offset' = Some(off)
                           /\ right_length' = Some(end - off)
                      ELSE UNCHANGED <<right_offset, right_length>>
              /\ UNCHANGED <<remaining_width, left_offset, left_length>>
  /\ i' = i + 1
  /\ cursor' = cursor + run[NextPiece(run, cursor)].len
  /\ UNCHANGED <<kind, run, data, max_width, starts_line, pc, result, prev>>
  /\ UNCHANGED paintVars

\* the iteration is over: left_box, right_box and the verdict
SplitFinish ==
  /\ pc = "loop"
  /\ ~should_continue \/ ~HasNextPiece(cursor, data.offset, data.length)
  /\ result' = Verdict(i, LeftBox(left_offset, left_length), right_offset, right_length)
  /\ pc' = "done"
  /\ UNCHANGED <<kind, run, data, max_width, starts_line, cursor, i,
                 remaining_width, left_offset, left_length, right_offset,
                 right_length, should_continue, prev>>
  /\ UNCHANGED paintVars

\* ------------------------------------------------------- the flow engine
\* the left box of a fit is split again, at the same width and starts_line
ResplitLeft ==
  /\ pc = "done"
  /\ result.tag = "SplitDidFit"
  /\ IsSome(result.left)
  /\ prev = None
  /\ prev' = Some(result.left.val)
  /\ data' = result.left.val
  /\ pc' = "call"
  /\ cursor' = 0
  /\ i' = 0
  /\ remaining_width' = 0
  /\ left_offset' = 0
  /\ left_length' = 0
  /\ right_offset' = None
  /\ right_length' = None
  /\ should_continue' = TRUE
  /\ result' = Pending
  /\ UNCHANGED <<kind, run, max_width, starts_line>>
  /\ UNCHANGED paintVars

\* the right box is handed back and split for the next line
SplitRight ==
  /\ pc = "done"
  /\ result.tag \in {"SplitDidFit", "SplitDidNotFit"}
  /\ IsSome(result.right)
  /\ prev' = None
  /\ data' = result.right.val
  /\ max_width' \in 0..MaxWidth
  /\ starts_line' \in BOOLEAN
  /\ pc' = "call"
  /\ cursor' = 0
  /\ i' = 0
  /\ remaining_width' = 0
  /\ left_offset' = 0
  /\ left_length' = 0
  /\ right_offset' = None
  /\ right_length' = None
  /\ should_continue' = TRUE
  /\ result' = Pending
  /\ UNCHANGED <<kind, run>>
  /\ UNCHANGED paintVars

\* --------------------------------------------------- build_display_list
Point2D(x, y) == [x |-> x, y |-> y]
Size2D(w, h) == [width |-> w, height |-> h]
Rect(o, sz) == [origin |-> o, size |-> sz]

\* au::from_frac_px: pixels to app units
FromFracPx(px) == px * 60

\* Rect::translate
Translate(r, by) == Rect(Point2D(r.origin.x + by.x, r.origin.y + by.y), r.size)

\* Rect::intersects
Intersects(a, b) ==
  /\ a.origin.x < b.origin.x + b.size.width
  /\ b.origin.x < a.origin.x + a.size.width
  /\ a.origin.y < b.origin.y + b.size.height
  /\ b.origin.y < a.origin.y + a.size.height

\* FuzzyEq on alpha; alpha is kept in whole percent, coarser than the epsilon
FuzzyEq(a, b) == a = b

\* CSS values: a length is "auto" or Specified(Px(n)), written Some(n)
Rgba(r, g, b, a) == [red |-> r, green |-> g, blue |-> b, alpha |-> a]
Rgb(r, g, b) == Rgba(r, g, b, 100)

\* the styles, boxes and arguments the paint walker hands in
BackgroundColors ==
  {[tag |-> "BgColorTransparent"],
   [tag |-> "BgColor", c |-> Rgba(255, 0, 0, 0)],
   [tag |-> "BgColor", c |-> Rgba(255, 0, 0, 100)]}
Borders ==
  {[border_width |-> None, border_color |-> None],
   [border_width |-> Some(2), border_color |-> None],
   [border_width |-> Some(2), border_color |-> Some(Rgb(0, 0, 255))]}
Placements ==
  {[position |-> "static", left |-> None, top |-> None],
   [position |-> "PosAbsolute", left |-> Some(0), top |-> Some(0)],
   [position |-> "PosAbsolute", left |-> Some(2), top |-> None]}
Styles ==
  {[position |-> pl.position, left |-> pl.left, top |-> pl.top,
    background_color |-> bg,
    border_width |-> bd.border_width, border_color |-> bd.border_color] :
     pl \in Placements, bg \in BackgroundColors, bd \in Borders}
Positions ==
  {Rect(Point2D(0, 0), Size2D(60, 60)), Rect(Point2D(120, 120), Size2D(60, 60))}
Offsets == {Point2D(0, 0), Point2D(-120, -120)}
DirtyRects == {Rect(Point2D(0, 0), Size2D(60, 60))}

\* dl::DisplayItem
SolidColorItem(bounds, c) == [type |-> "SolidColor", bounds |-> bounds, color |-> Rgb(c.red, c.green, c.blue)]
TextItem(bounds, d) == [type |-> "Text", bounds |-> bounds, offset |-> d.offset, length |-> d.length]
ImageItem(bounds) == [type |-> "Image", bounds |-> bounds]
BorderItem(bounds, w, c) == [type |-> "Border", bounds |-> bounds, width |-> w, color |-> Rgb(c.red, c.green, c.blue)]

\* `let box_bounds = match style.position { .. }`
BoxBounds(st, pos) ==
  IF st.position = "PosAbsolute"
  THEN LET x_offset == IF IsSome(st.left) THEN FromFracPx(st.left.val) ELSE pos.origin.x
           y_offset == IF IsSome(st.top) THEN FromFracPx(st.top.val) ELSE pos.origin.y
       IN  Rect(Point2D(x_offset, y_offset), pos.size)
  ELSE pos

\* the visibility test left out
AlwaysVisible(bounds, d) == TRUE

\* `if abs_box_bounds.intersects(dirty) { .. } else { return; }`
Visible(bounds, d) == Intersects(bounds, d)

\* add_bgcolor_to_list: the items it appends
BgcolorItems(st, abs_bounds) ==
  LET bgcolor == IF st.background_color.tag = "BgColor"
                 THEN st.background_color.c
                 ELSE Rgba(0, 0, 0, 0)
  IN  IF ~FuzzyEq(bgcolor.alpha, 0)
      THEN <<SolidColorItem(abs_bounds, bgcolor)>>
      ELSE <<>>

\* the match on *self of build_display_list: the items it appends
ContentItems(k, d, img, abs_bounds) ==
  CASE k = "TextBox" -> <<TextItem(abs_bounds, d)>>
    [] k = "GenericBox" -> <<>>
    [] k = "ImageBox" -> IF IsSome(img) THEN <<ImageItem(abs_bounds)>> ELSE <<>>

\* add_border_to_list: the items it appends
BorderItems(st, abs_bounds) ==
  IF IsSome(st.border_width)
  THEN LET border_width == FromFracPx(st.border_width.val)
           bounds == Rect(Point2D(abs_bounds.origin.x - border_width \div 2,
                                  abs_bounds.origin.y - border_width \div 2),
                          Size2D(abs_bounds.size.width + border_width,
                                 abs_bounds.size.height + border_width))
           color == IF IsSome(st.border_color) THEN st.border_color.val ELSE Rgb(0, 0, 0)
       IN  <<BorderItem(bounds, border_width, color)>>
  ELSE <<>>

NoBounds == Rect(Point2D(0, 0), Size2D(0, 0))

\* bounds of the box, translated, and the visibility test
PaintBegin ==
  /\ ppc = "call"
  /\ abs_box_bounds' = Translate(BoxBounds(style, position), offset)
  /\ ppc' = IF Visible(abs_box_bounds', dirty) THEN "bgcolor" ELSE "done"
  /\ UNCHANGED <<style, position, image, dirty, offset, list, list0, boxes>>
  /\ UNCHANGED splitVars

\* self.add_bgcolor_to_list(list, &abs_box_bounds)
AddBgcolorToList ==
  /\ ppc = "bgcolor"
  /\ list' = list \o BgcolorItems(style, abs_box_bounds)
  /\ ppc' = "content"
  /\ UNCHANGED <<style, position, image, dirty, offset, abs_box_bounds, list0, boxes>>
  /\ UNCHANGED splitVars

\* UnscannedTextBox(*) => fail
PaintUnscanned ==
  /\ ppc = "content"
  /\ kind = "UnscannedTextBox"
  /\ ppc' = "failed"
  /\ UNCHANGED <<style, position, image, dirty, offset, list, abs_box_bounds, list0, boxes>>
  /\ UNCHANGED splitVars

\* the border emitted before the content
PaintBorderThenContent ==
  /\ ppc = "content"
  /\ kind # "UnscannedTextBox"
  /\ list' = list \o BorderItems(style, abs_box_bounds)
                   \o ContentItems(kind, data, image, abs_box_bounds)
  /\ ppc' = "done"
  /\ UNCHANGED <<style, position, image, dirty, offset, abs_box_bounds, list0, boxes>>
  /\ UNCHANGED splitVars

\* the other arms of the match on *self
PaintContent ==
  /\ ppc = "content"
  /\ kind # "UnscannedTextBox"
  /\ list' = list \o ContentItems(kind, data, image, abs_box_bounds)
  /\ ppc' = "border"
  /\ UNCHANGED <<style, position, image, dirty, offset, abs_box_bounds, list0, boxes>>
  /\ UNCHANGED splitVars

\* the border put at the front of the list
AddBorderToFront ==
  /\ ppc = "border"
  /\ list' = BorderItems(style, abs_box_bounds) \o list
  /\ ppc' = "done"
  /\ UNCHANGED <<style, position, image, dirty, offset, abs_box_bounds, list0, boxes>>
  /\ UNCHANGED splitVars

\* self.add_border_to_list(list, abs_box_bounds)
AddBorderToList ==
  /\ ppc = "border"
  /\ list' = list \o BorderItems(style, abs_box_bounds)
  /\ ppc' = "done"
  /\ UNCHANGED <<style, position, image, dirty, offset, abs_box_bounds, list0, boxes>>
  /\ UNCHANGED splitVars

\* a box as the paint walker hands it to build_display_list
BoxToPaint(k, st, pos, img, off) ==
  /\ k \in Kinds
  /\ st \in Styles
  /\ pos \in Positions
  /\ img \in {None, Some("image")}
  /\ k # "ImageBox" => img = None
  /\ off \in Offsets

\* the paint walker goes on to the next box, with the same list
PaintNextBox ==
  /\ ppc = "done"
  /\ boxes < MaxBoxes
  /\ BoxToPaint(kind', style', position', image', offset')
  /\ list0' = list
  /\ boxes' = boxes + 1
  /\ ppc' = "call"
  /\ abs_box_bounds' = NoBounds
  /\ UNCHANGED <<dirty, list>>
  /\ UNCHANGED <<run, data, max_width, starts_line, pc, cursor, i,
                 remaining_width, left_offset, left_length, right_offset,
                 right_length, should_continue, result, prev>>

\* ------------------------------------------------------- specifications
NoRun == <<[len |-> 1, adv |-> 1, ws |-> FALSE]>>

\* no paint pass is under way
PaintIdle ==
  /\ style = [position |-> "static", left |-> None, top |-> None,
              background_color |-> [tag |-> "BgColorTransparent"],
              border_width |-> None, border_color |-> None]
  /\ position = Rect(Point2D(0, 0), Size2D(0, 0))
  /\ image = None
  /\ dirty = Rect(Point2D(0, 0), Size2D(0, 0))
  /\ offset = Point2D(0, 0)
  /\ list = <<>>
  /\ list0 = <<>>
  /\ ppc = "idle"
  /\ abs_box_bounds = NoBounds
  /\ boxes = 0

SplitInit ==
  /\ kind \in Kinds
  /\ run \in Runs
  /\ kind # "TextBox" => run = NoRun
  /\ data = [offset |-> 0, length |-> RunLength(run)]
  /\ max_width \in 0..MaxWidth
  /\ starts_line \in BOOLEAN
  /\ prev = None
  /\ Idle
  /\ PaintIdle

SplitNext ==
  \/ SplitCannotSplit
  \/ SplitUnscanned
  \/ SplitBegin
  \/ ConsiderPiece
  \/ SplitFinish
  \/ ResplitLeft
  \/ SplitRight

SplitSpec == SplitInit /\ [][SplitNext]_vars

PaintInit ==
  /\ BoxToPaint(kind, style, position, image, offset)
  /\ dirty \in DirtyRects
  /\ list = <<>>
  /\ list0 = <<>>
  /\ boxes = 1
  /\ ppc = "call"
  /\ abs_box_bounds = NoBounds
  /\ run = NoRun
  /\ data = [offset |-> 0, length |-> RunLength(run)]
  /\ max_width = 0
  /\ starts_line = FALSE
  /\ prev = None
  /\ Idle

PaintNext ==
  \/ PaintBegin
  \/ AddBgcolorToList
  \/ PaintUnscanned
  \/ PaintContent
  \/ AddBorderToList
  \/ PaintNextBox

PaintSpec == PaintInit /\ [][PaintNext]_vars

\* ------------------------------------------------------------ properties
\* split_to_width has returned a SplitDidFit or SplitDidNotFit for a Text box
SplitDone == kind = "TextBox" /\ pc = "done"

End == data.offset + data.length

\* the pieces of the run that lie in [o, o + l)
PiecesIn(o, l) ==
  {k \in 1..Len(run) : o <= PieceOffset(run, k) /\ PieceOffset(run, k) + run[k].len <= o + l}

RECURSIVE AdvanceOf(_)
\* the sum of the advances of a set of pieces
AdvanceOf(ks) ==
  IF ks = {} THEN 0
  ELSE LET k == CHOOSE x \in ks : TRUE IN run[k].adv + AdvanceOf(ks \ {k})

FirstPiece == PieceAt(run, data.offset)

FirstIsTrimmed == starts_line /\ run[FirstPiece].ws

AllFits == AdvanceOf(PiecesIn(data.offset, data.length)) <= max_width

\* C1 as stated: if the advances of all pieces of the range sum to at most W,
\* the result is SplitDidFit(Some(whole range), None), for both starts_line.
C1_WholeRangeFits ==
  (SplitDone /\ AllFits) => result = SplitDidFit(Some(data), None)

\* C1 amended: if the advances of all pieces of the range sum to at most W, the
\* result is SplitDidFit(Some(whole range), None) unless starts_line holds and
\* the first piece is trimmable whitespace; then the first piece is trimmed:
\* left is the rest of the range after it (None when there is no rest), right is None.
C1_WholeRangeFitsUnlessTrimmed ==
  (SplitDone /\ AllFits) =>
    IF FirstIsTrimmed
    THEN LET n == run[FirstPiece].len
         IN  result = SplitDidFit(IF data.length > n
                                  THEN Some([offset |-> data.offset + n, length |-> data.length - n])
                                  ELSE None, None)
    ELSE result = SplitDidFit(Some(data), None)

C1_Witness ==
  /\ SplitDone /\ AllFits /\ ~FirstIsTrimmed
  /\ Cardinality(PiecesIn(data.offset, data.length)) >= 2
  /\ AdvanceOf(PiecesIn(data.offset, data.length)) = max_width
  /\ result = SplitDidFit(Some(data), None)

FirstDoesNotFit == run[FirstPiece].adv > max_width

\* C2 as stated: if the first piece's advance exceeds W, the result is
\* SplitDidNotFit(None, Some(whole range)), also when that piece is trimmable
\* whitespace.
C2_FirstPieceTooWide ==
  (SplitDone /\ FirstDoesNotFit) => result = SplitDidNotFit(None, Some(data))

\* C2 amended: if the first piece's advance exceeds W and the piece is not
\* trimmable whitespace, the result is SplitDidNotFit(None, Some(whole range));
\* if it is trimmable whitespace it is dropped: the result is
\* SplitDidNotFit(None, Some(the range after it)) when content follows it, and
\* SplitDidFit(None, None) when it ends the range.
C2_FirstPieceTooWideUnlessWhitespace ==
  (SplitDone /\ FirstDoesNotFit) =>
    LET n == run[FirstPiece].len
    IN  IF ~run[FirstPiece].ws
        THEN result = SplitDidNotFit(None, Some(data))
        ELSE IF data.length > n
             THEN result = SplitDidNotFit(None, Some([offset |-> data.offset + n,
                                                      length |-> data.length - n]))
             ELSE result = SplitDidFit(None, None)

C2_Witness ==
  /\ SplitDone /\ FirstDoesNotFit /\ ~run[FirstPiece].ws
  /\ data.offset > 0
  /\ result = SplitDidNotFit(None, Some(data))

\* C3: re-splitting the left box of a fit, at the same width and the same
\* starts_line, returns SplitDidFit(Some(that same box), None).
C3_ResplitIsIdempotent ==
  (SplitDone /\ IsSome(prev)) => result = SplitDidFit(Some(prev.val), None)

\* the leading pieces of the range that are trimmable whitespace
RECURSIVE PrefixEnd(_)
PrefixEnd(at) ==
  IF at < End /\ run[PieceAt(run, at)].ws
  THEN PrefixEnd(at + run[PieceAt(run, at)].len)
  ELSE at

LeadingWhitespace == PrefixEnd(data.offset) - data.offset

\* C4: with starts_line, for a range that starts with trimmable whitespace (of
\* any number of pieces) followed by content, the left box starts at
\* offset + (length of the whole leading whitespace), and no advance of that
\* whitespace is deducted from the remaining width.
C4_LeadingWhitespaceTrimmed ==
  (kind = "TextBox" /\ starts_line /\ LeadingWhitespace > 0 /\ PrefixEnd(data.offset) < End) =>
    /\ (pc = "done" /\ result.tag \in {"SplitDidFit", "SplitDidNotFit"} /\ IsSome(result.left))
          => result.left.val.offset = data.offset + LeadingWhitespace
    /\ (pc = "loop" /\ cursor <= PrefixEnd(data.offset)) => remaining_width = max_width

\* C5: the left and right boxes are sub-ranges of the range, left ends at or
\* before the start of right, right is non-empty and ends at offset + length,
\* and every character in neither lies in a piece that is trimmable whitespace.
C5_RangeReconstruction ==
  (SplitDone /\ result.tag \in {"SplitDidFit", "SplitDidNotFit"}) =>
    LET l == result.left
        r == result.right
        InBox(b, p) == IsSome(b) /\ b.val.offset <= p /\ p < b.val.offset + b.val.length
    IN  /\ IsSome(l) => data.offset <= l.val.offset /\ l.val.offset + l.val.length <= End
        /\ IsSome(r) => /\ data.offset <= r.val.offset
                        /\ r.val.length > 0
                        /\ r.val.offset + r.val.length = End
        /\ (IsSome(l) /\ IsSome(r)) => l.val.offset + l.val.length <= r.val.offset
        /\ \A p \in data.offset..(End - 1) :
             (~InBox(l, p) /\ ~InBox(r, p)) => run[PieceAt(run, p)].ws

C5_Witness ==
  /\ SplitDone /\ IsSome(result.left) /\ IsSome(result.right)
  /\ result.left.val.offset + result.left.val.length < result.right.val.offset
  /\ result.right.val.offset < End

\* C6: the advances of the pieces in the left box sum to at most max_width,
\* and remaining_width is never negative during the pass.
C6_LeftWithinWidth ==
  /\ (kind = "TextBox" /\ pc \in {"loop", "done"}) => remaining_width >= 0
  /\ (SplitDone /\ result.tag \in {"SplitDidFit", "SplitDidNotFit"} /\ IsSome(result.left)) =>
       AdvanceOf(PiecesIn(result.left.val.offset, result.left.val.length)) <= max_width

C6_Witness ==
  /\ SplitDone /\ IsSome(result.left) /\ IsSome(result.right)
  /\ Cardinality(PiecesIn(result.left.val.offset, result.left.val.length)) >= 2
  /\ AdvanceOf(PiecesIn(result.left.val.offset, result.left.val.length)) = max_width
  /\ remaining_width = 0

\* the piece on which the pass stopped, when one did not fit
StoppedAt == PieceAt(run, cursor - 1)

\* no right chunk: everything fit, or the piece that did not fit was trimmable
\* whitespace ending exactly at the end of the range
NoRightChunk == should_continue \/ (run[StoppedAt].ws /\ cursor = End)

\* C10: with a right chunk the result is SplitDidNotFit(left, Some(right)) if
\* exactly one piece was examined or left is absent, SplitDidFit(Some(left),
\* Some(right)) otherwise; with no right chunk (everything fit, or the piece
\* that did not fit was trimmable whitespace ending the range) it is
\* SplitDidFit(left, None).
C10_VerdictRule ==
  SplitDone =>
    LET left == IF left_length > 0
                THEN Some([offset |-> left_offset, length |-> left_length])
                ELSE None
    IN  IF NoRightChunk
        THEN result = [tag |-> "SplitDidFit", left |-> left, right |-> None]
        ELSE /\ result.left = left
             /\ IsSome(result.right)
             /\ result.right.val.offset + result.right.val.length = End
             /\ result.tag = IF i = 1 \/ left = None THEN "SplitDidNotFit" ELSE "SplitDidFit"

C10_Witness ==
  /\ SplitDone /\ ~NoRightChunk
  /\ i > 1 /\ left_length = 0
  /\ result.tag = "SplitDidNotFit" /\ result.left = None /\ IsSome(result.right)

\* C12: a SplitDidNotFit always has no left box and a right box; exactly one
\* piece examined never comes with a right chunk and a left box.
C12_DidNotFitHasNoLeft ==
  SplitDone =>
    /\ result.tag = "SplitDidNotFit" => (result.left = None /\ IsSome(result.right))
    /\ ~(i = 1 /\ IsSome(right_offset) /\ IsSome(right_length) /\ left_length > 0)

C12_Witness ==
  /\ SplitDone /\ result.tag = "SplitDidNotFit"
  /\ starts_line /\ i = 2 /\ left_offset > data.offset
  /\ result.left = None
  /\ IsSome(result.right) /\ result.right.val.offset = left_offset

\* ---- display list
\* the two rectangles have no point in common
Disjoint(a, b) ==
  \/ a.origin.x + a.size.width <= b.origin.x
  \/ b.origin.x + b.size.width <= a.origin.x
  \/ a.origin.y + a.size.height <= b.origin.y
  \/ b.origin.y + b.size.height <= a.origin.y

\* the absolute bounds of the box being painted
AbsBounds ==
  LET x == IF style.position = "PosAbsolute" /\ IsSome(style.left)
           THEN style.left.val * 60 ELSE position.origin.x
      y == IF style.position = "PosAbsolute" /\ IsSome(style.top)
           THEN style.top.val * 60 ELSE position.origin.y
  IN  Rect(Point2D(x + offset.x, y + offset.y), position.size)

Culled == Disjoint(AbsBounds, dirty)

\* the items the current call has appended
Appended == SubSeq(list, Len(list0) + 1, Len(list))

\* C7: a box whose absolute bounds do not intersect the dirty rectangle
\* appends nothing, whatever its variant and style, and nothing is appended
\* before the test.
C7_CulledAppendsNothing ==
  /\ ppc = "call" => list = list0
  /\ (ppc # "idle" /\ Culled) => (list = list0 /\ ppc \in {"call", "done"})

C7_Witness ==
  /\ ppc = "done" /\ Culled /\ kind = "TextBox"
  /\ style.background_color = [tag |-> "BgColor", c |-> Rgba(255, 0, 0, 100)]
  /\ IsSome(style.border_width)
  /\ list = list0

Rank(item) ==
  CASE item.type = "SolidColor" -> 1
    [] item.type \in {"Text", "Image"} -> 2
    [] item.type = "Border" -> 3

\* C8: the items one call appends are the background (if any), then the
\* content (if any), then the border (if any), at most one of each.
C8_EmissionOrder ==
  ppc # "idle" =>
    /\ Len(list0) <= Len(list)
    /\ \A m, n \in 1..Len(Appended) : m < n => Rank(Appended[m]) < Rank(Appended[n])

C8_Witness ==
  /\ ppc = "done" /\ Len(Appended) = 3
  /\ Appended[1].type = "SolidColor"
  /\ Appended[2].type = "Image"
  /\ Appended[3].type = "Border"

IsPrefix(a, b) == Len(a) <= Len(b) /\ SubSeq(b, 1, Len(a)) = a

\* C11: every step of a paint pass keeps the items already in the list, in
\* the same order, and adds only at the end; a call adds between 0 and 3
\* items after the list it found, so the boxes' items are contiguous groups in
\* the order of the calls.
C11_AppendOnly ==
  [][/\ IsPrefix(list, list')
     /\ IsPrefix(list0', list')
     /\ Len(list') <= Len(list0') + 3
     /\ IsPrefix(list0, list0')]_vars

C11_Witness ==
  /\ ppc = "done" /\ boxes = 2
  /\ Len(list0) = 3 /\ Len(list) = 5
  /\ IsPrefix(list0, list)
  /\ list[4].type = "SolidColor" /\ list[5].type = "Border"

\* C9: build_display_list on an UnscannedText box always fails, culled or
\* not, and the display list is as the call found it when it fails.
C9_UnscannedFailsAtOnce ==
  (kind = "UnscannedTextBox" /\ ppc \in {"done", "failed"}) =>
    (ppc = "failed" /\ list = list0)

====
